---- MODULE Spec2Model ----
(***************************************************************************)
(* Model of the two tree splitters of the repository:                      *)
(*   tools/split_tree.py      byte-budget splitter (split_tree_file)       *)
(*   tools/convert_to_lazy.py threshold splitter   (main / split_tree)     *)
(*                                                                         *)
(* A JSON value is a record tagged by t:                                   *)
(*   [t |-> "str",  s |-> <string>]     [t |-> "num", n |-> <integer>]     *)
(*   [t |-> "bool", b |-> <boolean>]    [t |-> "list", e |-> <sequence>]   *)
(*   [t |-> "dict", e |-> <sequence of [k |-> <string>, v |-> <value>]>]   *)
(* A dict keeps its entries in insertion order, as a Python dict does.     *)
(***************************************************************************)
EXTENDS Integers, Sequences, FiniteSets, TLC

Str(s) == [t |-> "str", s |-> s]

Num(n) == [t |-> "num", n |-> n]

Bool(b) == [t |-> "bool", b |-> b]

List(e) == [t |-> "list", e |-> e]

Dict(e) == [t |-> "dict", e |-> e]

Entry(k, v) == [k |-> k, v |-> v]

IsDict(v) == v.t = "dict"

IsList(v) == v.t = "list"

IsStr(v) == v.t = "str"

\* list(d.keys())
Keys(d) == [i \in 1..Len(d.e) |-> d.e[i].k]

\* k in d
Has(d, k) == \E i \in 1..Len(d.e) : d.e[i].k = k

\* d[k]
Get(d, k) == d.e[CHOOSE i \in 1..Len(d.e) : d.e[i].k = k].v

\* d.get(k, default)
GetOr(d, k, default) == IF Has(d, k) THEN Get(d, k) ELSE default

\* {k: v for k, v in d.items() if k != key}
Without(d, key) == Dict(SelectSeq(d.e, LAMBDA en : en.k # key))

\* d[k] = v : an existing key keeps its place, a new key goes last
Put(d, k, v) ==
    IF Has(d, k)
    THEN Dict([i \in 1..Len(d.e) |-> IF d.e[i].k = k THEN Entry(k, v) ELSE d.e[i]])
    ELSE Dict(Append(d.e, Entry(k, v)))

\* the sum of q[lo..hi], by halving: a child list may hold more than a
\* thousand entries
RECURSIVE SumRange(_, _, _)
SumRange(q, lo, hi) ==
    IF lo > hi THEN 0
    ELSE IF lo = hi THEN q[lo]
    ELSE LET mid == (lo + hi) \div 2
         IN  SumRange(q, lo, mid) + SumRange(q, mid + 1, hi)

SumSeq(q) == SumRange(q, 1, Len(q))

\* len(str(n)) of an integer
Digits(n) ==
    LET a == IF n < 0 THEN 0 - n ELSE n
        d == IF a < 10 THEN 1 ELSE IF a < 100 THEN 2 ELSE IF a < 1000 THEN 3
             ELSE IF a < 10000 THEN 4 ELSE 5
    IN  d + (IF n < 0 THEN 1 ELSE 0)

\* len(json.dumps(v, indent=2).encode('utf-8')) of a value that starts at
\* indentation ind; strings are ASCII with nothing to escape
RECURSIVE PrettyBytes(_, _)
PrettyBytes(v, ind) ==
    CASE v.t = "str"  -> Len(v.s) + 2
      [] v.t = "num"  -> Digits(v.n)
      [] v.t = "bool" -> IF v.b THEN 4 ELSE 5
      [] v.t = "list" ->
            IF Len(v.e) = 0 THEN 2
            ELSE 2 + SumSeq([i \in 1..Len(v.e) |->
                         (ind + 2) + PrettyBytes(v.e[i], ind + 2)])
                   + 2 * (Len(v.e) - 1) + 1 + ind + 1
      [] v.t = "dict" ->
            IF Len(v.e) = 0 THEN 2
            ELSE 2 + SumSeq([i \in 1..Len(v.e) |->
                         (ind + 2) + (Len(v.e[i].k) + 2) + 2
                         + PrettyBytes(v.e[i].v, ind + 2)])
                   + 2 * (Len(v.e) - 1) + 1 + ind + 1

\* len(json.dumps(v, separators=(',', ':')).encode('utf-8'))
RECURSIVE MinifiedBytes(_)
MinifiedBytes(v) ==
    CASE v.t = "str"  -> Len(v.s) + 2
      [] v.t = "num"  -> Digits(v.n)
      [] v.t = "bool" -> IF v.b THEN 4 ELSE 5
      [] v.t = "list" ->
            IF Len(v.e) = 0 THEN 2
            ELSE 2 + SumSeq([i \in 1..Len(v.e) |-> MinifiedBytes(v.e[i])])
                   + (Len(v.e) - 1)
      [] v.t = "dict" ->
            IF Len(v.e) = 0 THEN 2
            ELSE 2 + SumSeq([i \in 1..Len(v.e) |->
                         (Len(v.e[i].k) + 2) + 1 + MinifiedBytes(v.e[i].v)])
                   + (Len(v.e) - 1)

\* FORMAT_STYLE = 'pretty': json_bytes measures, and json_dump_to_file
\* writes, the indented form
json_bytes(obj) == PrettyBytes(obj, 0)

(***************************************************************************)
(* tools/split_tree.py                                                     *)
(***************************************************************************)

\* Sizes that the code holds in MB as floats are held here in thousandths of
\* a byte: s MB is s * 1048576000.  The division by 1024 * 1024 is exact in
\* binary floating point, so the comparisons are the same.

VARIABLES
    pipeline,          \* "split" (split_tree.py) or "lazy" (convert_to_lazy.py)
    pc,                \* the position of the run
    tree_data,         \* the parsed input document
    max_bytes,         \* int(max_size_mb * 1024 * 1024)
    total_nodes,       \* split_tree_file's total_nodes
    chunks,            \* the (path, chunk) tuples the partitioner returned
    wi,                \* 1 + the index i of the chunk being written
    manifest,          \* the manifest dict being built
    disk,              \* output directory: file name -> "partial" or its content
    min_children,      \* --min-children
    max_depth,         \* --max-depth
    lazy               \* the state of the lazy run (see split_tree)

vars == <<pipeline, pc, tree_data, max_bytes, total_nodes, chunks, wi, manifest, disk, min_children, max_depth, lazy>>

\* max_size_mb, in thousandths of a byte
max_size_mb == 1000 * max_bytes

\* node.get('children', []); the documents of the model hold a list there
ChildrenOf(node) == GetOr(node, "children", List(<<>>)).e

RECURSIVE count_nodes(_)
count_nodes(node) ==
    IF ~IsDict(node) THEN 0
    ELSE LET children == GetOr(node, "children", List(<<>>))
         IN  1 + (IF IsList(children)
                  THEN SumSeq([i \in 1..Len(children.e) |-> count_nodes(children.e[i])])
                  ELSE 0)

\* estimate_node_size_mb with a list entry held for 1000 bytes, not 100
estimate_node_size_mb_HeavyList(node) ==
    IF ~IsDict(node) THEN 1048576
    ELSE 1000 * (50 + SumSeq([i \in 1..Len(node.e) |->
             Len(node.e[i].k) + 10
             + (CASE node.e[i].v.t = "str"  -> Len(node.e[i].v.s) + 2
                  [] node.e[i].v.t \in {"num", "bool"} -> 20
                  [] node.e[i].v.t = "list" -> Len(node.e[i].v.e) * 1000
                  [] OTHER -> 50)]))

estimate_node_size_mb(node) ==
    IF ~IsDict(node) THEN 1048576
    ELSE 1000 * (50 + SumSeq([i \in 1..Len(node.e) |->
             Len(node.e[i].k) + 10
             + (CASE node.e[i].v.t = "str"  -> Len(node.e[i].v.s) + 2
                  [] node.e[i].v.t \in {"num", "bool"} -> 20
                  [] node.e[i].v.t = "list" -> Len(node.e[i].v.e) * 100
                  [] OTHER -> 50)]))

is_structured_tree(obj) == IsDict(obj) /\ (Has(obj, "children") \/ Has(obj, "name"))

is_nested_map(obj) == IsDict(obj) /\ ~is_structured_tree(obj)

node_without_children(node) == Without(node, "children")

\* node_without_children.copy() with ['children'] = kids
ChunkOf(node, kids) == Put(node_without_children(node), "children", List(kids))

\* f"{current_path}_part_{chunk_counter[0]}"
PartPath(current_path, n) == current_path \o "_part_" \o ToString(n)

\* f"{current_path}_part_{n}" if current_path else f"part_{n}"
FlatPartPath(current_path, n) ==
    IF current_path # "" THEN current_path \o "_part_" \o ToString(n)
    ELSE "part_" \o ToString(n)

\* ---- extract_subtrees, extract_flat_structure ----

\* a left fold of a loop body over lo..hi is taken by halves, so that a loop
\* over a thousand children nests a dozen evaluations and not a thousand; the
\* test on the left half's counter (never negative) has the left half computed
\* before the right half starts

\* what a call returns: the (path, chunk) tuples, chunk_counter[0] after it,
\* and the exception it raised ("" when it returned)
Result(ch, ctr, err) == [chunks |-> ch, counter |-> ctr, err |-> err]

\* the locals of a child loop: chunks, chunk_counter[0], current_chunk's
\* children, the size held for current_chunk, and the exception raised
Loop(ch, ctr, cur, size, err) ==
    [chunks |-> ch, counter |-> ctr, cur |-> cur, size |-> size, err |-> err]

FlatThreshold == 1000

\* base_bytes: the wrapper with an empty child list
base_bytes(node) == json_bytes(ChunkOf(node, <<>>))

\* lines 113-117, 123-127, 139-140: save current_chunk and start a new one
SplitFlush(node, current_path, st) ==
    [st EXCEPT !.chunks = Append(@, [path |-> PartPath(current_path, st.counter),
                                     chunk |-> ChunkOf(node, st.cur)]),
               !.counter = @ + 1,
               !.cur = <<>>,
               !.size = estimate_node_size_mb(node_without_children(node))]

\* FlatFlush with current_chunk's children kept for the next chunk
FlatFlush_KeepsChildren(node, current_path, st) ==
    [st EXCEPT !.chunks = Append(@, [path |-> FlatPartPath(current_path, st.counter),
                                     chunk |-> ChunkOf(node, st.cur)]),
               !.counter = @ + 1,
               !.size = base_bytes(node)]

\* lines 189-195, 204-209, 230-232: the same in extract_flat_structure
FlatFlush(node, current_path, st) ==
    [st EXCEPT !.chunks = Append(@, [path |-> FlatPartPath(current_path, st.counter),
                                     chunk |-> ChunkOf(node, st.cur)]),
               !.counter = @ + 1,
               !.cur = <<>>,
               !.size = base_bytes(node)]

\* one pass of "for c, c_bytes in zip(batch, child_sizes)"
FlatChildPass(node, current_path, st, j) ==
    LET c == ChildrenOf(node)[j]
        c_bytes == json_bytes(c)
        st1 == IF st.cur # <<>> /\ st.size + c_bytes > max_bytes
               THEN FlatFlush(node, current_path, st) ELSE st
    IN  IF c_bytes > max_bytes
        THEN [st1 EXCEPT !.chunks = Append(@, [path |-> FlatPartPath(current_path, st1.counter),
                                               chunk |-> ChunkOf(node, <<c>>)]),
                         !.counter = @ + 1]
        ELSE [st1 EXCEPT !.cur = Append(@, c), !.size = @ + c_bytes]

RECURSIVE FlatChildRange(_, _, _, _, _)
FlatChildRange(node, current_path, st, lo, hi) ==
    IF lo > hi THEN st
    ELSE IF lo = hi THEN FlatChildPass(node, current_path, st, lo)
    ELSE LET mid == (lo + hi) \div 2
             left == FlatChildRange(node, current_path, st, lo, mid)
         IN  IF left.counter >= 0
             THEN FlatChildRange(node, current_path, left, mid + 1, hi) ELSE left

\* one pass of "while processed < len(children)"; nothing once the loop has
\* ended.  The products with 0.1 and 0.5 are taken exactly.
FlatIteration(node, current_path, st) ==
    LET children == ChildrenOf(node)
        batch_end == IF st.processed + st.batch_size < Len(children)
                     THEN st.processed + st.batch_size ELSE Len(children)
        child_sizes == [i \in (st.processed + 1)..batch_end |-> json_bytes(children[i])]
        batch_bytes == SumRange(child_sizes, st.processed + 1, batch_end)
        halved == IF st.batch_size \div 2 > 1 THEN st.batch_size \div 2 ELSE 1
        doubled == IF st.batch_size * 2 < 1000 THEN st.batch_size * 2 ELSE 1000
        st1 == IF st.size + batch_bytes > max_bytes /\ st.cur # <<>>
               THEN FlatFlush(node, current_path, st) ELSE st
        st2 == FlatChildRange(node, current_path, st1, st.processed + 1, batch_end)
    IN  IF st.processed >= Len(children) THEN st
        ELSE IF batch_bytes > max_bytes - base_bytes(node) /\ st.batch_size > 1
        THEN [st EXCEPT !.batch_size = halved]
        ELSE [st2 EXCEPT !.processed = batch_end,
                         !.batch_size = IF 10 * batch_bytes < max_bytes THEN doubled
                                        ELSE IF 2 * batch_bytes > max_bytes THEN halved
                                        ELSE @]

\* k passes of the while loop
RECURSIVE FlatIterate(_, _, _, _)
FlatIterate(node, current_path, st, k) ==
    IF k = 0 THEN st
    ELSE IF k = 1 THEN FlatIteration(node, current_path, st)
    ELSE LET left == FlatIterate(node, current_path, st, k \div 2)
         IN  IF left.counter >= 0
             THEN FlatIterate(node, current_path, left, k - k \div 2) ELSE left

\* The while loop ends within this many passes: a pass moves processed on by
\* at least one child or halves batch_size, which is at most 1000 and so is
\* halved at most nine times in a row.
FlatPasses(n) == 10 * n + 10

extract_flat_structure(node, current_path, chunk_counter) ==
    LET st0 == [chunks |-> <<>>, counter |-> chunk_counter, cur |-> <<>>,
                size |-> base_bytes(node), err |-> "",
                processed |-> 0, batch_size |-> 100]
        st == FlatIterate(node, current_path, st0, FlatPasses(Len(ChildrenOf(node))))
        fin == IF st.cur # <<>> THEN FlatFlush(node, current_path, st) ELSE st
    IN  Result(fin.chunks, fin.counter, fin.err)

RECURSIVE extract_subtrees(_, _, _)
RECURSIVE SplitRange(_, _, _, _, _)

\* one pass of "for i, child in enumerate(children)" (i counted from 1 here);
\* child.get raises AttributeError on a child that is no dict
SplitPass(node, current_path, st, i) ==
    LET child == ChildrenOf(node)[i]
        child_size_mb == estimate_node_size_mb(child)
        child_name == GetOr(child, "name", Str("child_" \o ToString(i - 1))).s
        child_path == IF current_path # "" THEN current_path \o "/" \o child_name
                      ELSE child_name
        st1 == IF st.size + child_size_mb > max_size_mb /\ st.cur # <<>>
               THEN SplitFlush(node, current_path, st) ELSE st
        st2 == IF st1.cur # <<>> THEN SplitFlush(node, current_path, st1) ELSE st1
        child_chunks == extract_subtrees(child, child_path, st2.counter)
    IN  IF st.err # "" THEN st
        ELSE IF ~IsDict(child) THEN [st EXCEPT !.err = "AttributeError"]
        ELSE IF child_size_mb > max_size_mb
        THEN [st2 EXCEPT !.chunks = @ \o child_chunks.chunks,
                         !.counter = child_chunks.counter,
                         !.err = child_chunks.err]
        ELSE [st1 EXCEPT !.cur = Append(@, child), !.size = @ + child_size_mb]

SplitRange(node, current_path, st, lo, hi) ==
    IF lo > hi THEN st
    ELSE IF lo = hi THEN SplitPass(node, current_path, st, lo)
    ELSE LET mid == (lo + hi) \div 2
             left == SplitRange(node, current_path, st, lo, mid)
         IN  IF left.counter >= 0
             THEN SplitRange(node, current_path, left, mid + 1, hi) ELSE left

extract_subtrees(node, current_path, chunk_counter) ==
    IF ~IsDict(node) THEN Result(<<>>, chunk_counter, "")
    ELSE LET children == ChildrenOf(node)
             whole == Result(<<[path |-> current_path, chunk |-> node]>>, chunk_counter, "")
             total_size_mb ==
                 estimate_node_size_mb(node_without_children(node))
                 + SumSeq([i \in 1..Len(children) |-> estimate_node_size_mb(children[i])])
             st == SplitRange(node, current_path,
                              Loop(<<>>, chunk_counter, <<>>,
                                   estimate_node_size_mb(node_without_children(node)), ""),
                              1, Len(children))
             fin == IF st.err = "" /\ st.cur # <<>>
                    THEN SplitFlush(node, current_path, st) ELSE st
         IN  IF Len(children) = 0 THEN whole
             ELSE IF Len(children) > FlatThreshold
                  THEN extract_flat_structure(node, current_path, chunk_counter)
             ELSE IF total_size_mb <= max_size_mb THEN whole
             ELSE Result(fin.chunks, fin.counter, fin.err)

\* ---- chunk_nested_map ----

\* the accumulator of a batching loop
Acc(ch, keys, bytes, idx) ==
    [chunks |-> ch, acc_keys |-> keys, acc_bytes |-> bytes, part_idx |-> idx]

\* f"{current_path}/{root_key}" if current_path else root_key
KeyPath(current_path, root_key) ==
    IF current_path # "" THEN current_path \o "/" \o root_key ELSE root_key

\* the flush of the single-key loop: {root_key: {kk: child_map[kk] ...}}
SingleFlush(root_key, current_path, st) ==
    Acc(Append(st.chunks,
               [path |-> KeyPath(current_path, root_key) \o "_part_" \o ToString(st.part_idx),
                chunk |-> Dict(<<Entry(root_key, Dict(st.acc_keys))>>)]),
        <<>>, 0, st.part_idx + 1)

\* MultiFlush with acc_keys not emptied after the chunk is saved
MultiFlush_KeepsKeys(current_path, st) ==
    Acc(Append(st.chunks,
               [path |-> FlatPartPath(current_path, st.part_idx),
                chunk |-> Dict(st.acc_keys)]),
        st.acc_keys, 0, st.part_idx + 1)

\* the flush of the multi-key loop: {kk: root_obj[kk] ...}
MultiFlush(current_path, st) ==
    Acc(Append(st.chunks,
               [path |-> FlatPartPath(current_path, st.part_idx),
                chunk |-> Dict(st.acc_keys)]),
        <<>>, 0, st.part_idx + 1)

\* WrapUnder with the sub-chunks spliced as they are, not wrapped
WrapUnder_Unwrapped(root_key, sub_chunks) == sub_chunks

\* wrapped = {root_key: sub_chunk} for each sub-chunk
WrapUnder(root_key, sub_chunks) ==
    [j \in 1..Len(sub_chunks) |->
        [path |-> sub_chunks[j].path,
         chunk |-> Dict(<<Entry(root_key, sub_chunks[j].chunk)>>)]]

RECURSIVE chunk_nested_map(_, _)
RECURSIVE SingleKeyLoop(_, _, _, _, _)
RECURSIVE MultiKeyLoop(_, _, _, _)

\* one pass of "for k, s in zip(child_keys, sizes)" of the single-key case
SingleKeyPass(root_key, child_map, current_path, st, i) ==
    LET en == child_map.e[i]
        s == MinifiedBytes(Dict(<<Entry(root_key, Dict(<<en>>))>>))
    IN  IF s > max_bytes /\ IsDict(en.v)
        THEN LET st1 == IF st.acc_keys # <<>>
                        THEN SingleFlush(root_key, current_path, st) ELSE st
                 sub_chunks == chunk_nested_map(Dict(<<en>>), KeyPath(current_path, root_key))
             IN  [st1 EXCEPT !.chunks = @ \o WrapUnder(root_key, sub_chunks)]
        ELSE LET st1 == IF st.acc_keys # <<>> /\ st.acc_bytes + s > max_bytes
                        THEN SingleFlush(root_key, current_path, st) ELSE st
             IN  [st1 EXCEPT !.acc_keys = Append(@, en), !.acc_bytes = @ + s]

SingleKeyLoop(root_key, child_map, current_path, st, i) ==
    IF i > Len(child_map.e) THEN st
    ELSE SingleKeyLoop(root_key, child_map, current_path,
                       SingleKeyPass(root_key, child_map, current_path, st, i), i + 1)

\* one pass of "for k, s in zip(keys, sizes)" of the multi-key case
MultiKeyPass(root_obj, current_path, st, i) ==
    LET en == root_obj.e[i]
        s == MinifiedBytes(Dict(<<en>>))
    IN  IF s > max_bytes /\ IsDict(en.v)
        THEN LET st1 == IF st.acc_keys # <<>> THEN MultiFlush(current_path, st) ELSE st
                 sub_chunks == chunk_nested_map(Dict(<<en>>), current_path)
             IN  [st1 EXCEPT !.chunks = @ \o sub_chunks]
        ELSE LET st1 == IF st.acc_keys # <<>> /\ st.acc_bytes + s > max_bytes
                        THEN MultiFlush(current_path, st) ELSE st
             IN  [st1 EXCEPT !.acc_keys = Append(@, en), !.acc_bytes = @ + s]

MultiKeyLoop(root_obj, current_path, st, i) ==
    IF i > Len(root_obj.e) THEN st
    ELSE MultiKeyLoop(root_obj, current_path,
                      MultiKeyPass(root_obj, current_path, st, i), i + 1)

chunk_nested_map(root_obj, current_path) ==
    LET whole == <<[path |-> current_path, chunk |-> root_obj]>>
    IN  IF Len(root_obj.e) = 0 THEN whole
        ELSE IF Len(root_obj.e) = 1
        THEN LET root_key == root_obj.e[1].k
                 child_map == root_obj.e[1].v
             IN  IF ~IsDict(child_map) THEN whole
                 ELSE IF Len(child_map.e) = 0 THEN whole
                 ELSE LET st == SingleKeyLoop(root_key, child_map, current_path,
                                              Acc(<<>>, <<>>, 0, 0), 1)
                      IN  IF st.acc_keys # <<>>
                          THEN SingleFlush(root_key, current_path, st).chunks
                          ELSE st.chunks
        ELSE LET st == MultiKeyLoop(root_obj, current_path, Acc(<<>>, <<>>, 0, 0), 1)
             IN  IF st.acc_keys # <<>>
                 THEN MultiFlush(current_path, st).chunks
                 ELSE st.chunks

\* ---- split_tree_file ----

\* f"tree_part_{i:05d}.json"
ChunkFileName(i) ==
    "tree_part_"
    \o (IF i < 10 THEN "0000" ELSE IF i < 100 THEN "000" ELSE IF i < 1000 THEN "00"
        ELSE IF i < 10000 THEN "0" ELSE "")
    \o ToString(i) \o ".json"

\* a file of the output directory: whole, or cut short by a failed write
File(name, state, content) == [name |-> name, state |-> state, content |-> content]

FileNames == {f.name : f \in disk}

\* open(path, 'w') and a full write: the file holds content, whatever it held
Written(d, name, content) ==
    {f \in d : f.name # name} \cup {File(name, "complete", content)}

\* open(path, 'w') and a write that stops midway
CutShort(d, name, content) ==
    {f \in d : f.name # name} \cup {File(name, "partial", content)}

\* file_path.unlink()
Unlinked(d, name) == {f \in d : f.name # name}

\* lines 411-434: count the nodes, classify the document, run the partitioner,
\* set up the manifest dict; an exception of the partitioner ends the run
SplitStart ==
    /\ pipeline = "split" /\ pc = "start"
    /\ LET r == IF is_nested_map(tree_data)
                THEN Result(chunk_nested_map(tree_data, ""), 0, "")
                ELSE extract_subtrees(tree_data, "", 0)
       IN  /\ total_nodes' = count_nodes(tree_data)
           /\ chunks' = IF r.err = "" THEN r.chunks ELSE chunks
           /\ manifest' = IF r.err = ""
                          THEN [total_files |-> Len(r.chunks),
                                total_nodes |-> count_nodes(tree_data), files |-> <<>>]
                          ELSE manifest
           /\ pc' = IF r.err = "" THEN "write" ELSE "failed"
    /\ wi' = 1
    /\ UNCHANGED <<pipeline, tree_data, max_bytes, disk, min_children, max_depth, lazy>>

\* round(file_size_mb, 2), in hundredths of a MB (a tie rounds up here)
size_mb(bytes) == (bytes * 100 + 524288) \div 1048576

\* the descriptor appended to manifest["files"] for chunks[i - 1]
Descriptor(i) ==
    [filename |-> ChunkFileName(i - 1), path |-> chunks[i].path,
     size_mb |-> size_mb(json_bytes(chunks[i].chunk)),
     nodes |-> count_nodes(chunks[i].chunk), is_root |-> (i - 1 = 0)]

\* lines 436-461: one pass of the loop over the chunks, the write succeeding
WriteChunk ==
    /\ pipeline = "split" /\ pc = "write" /\ wi <= Len(chunks)
    /\ disk' = Written(disk, ChunkFileName(wi - 1), chunks[wi].chunk)
    /\ manifest' = [manifest EXCEPT !.files = Append(@, Descriptor(wi))]
    /\ wi' = wi + 1
    /\ UNCHANGED <<pipeline, pc, tree_data, max_bytes, total_nodes, chunks,
                   min_children, max_depth, lazy>>

\* lines 445-447: the write raises (an error, or KeyboardInterrupt) with the
\* file opened and part of the chunk in it
WriteChunkFail ==
    /\ pipeline = "split" /\ pc = "write" /\ wi <= Len(chunks)
    /\ disk' = CutShort(disk, ChunkFileName(wi - 1), chunks[wi].chunk)
    /\ pc' = "except"
    /\ UNCHANGED <<pipeline, tree_data, max_bytes, total_nodes, chunks,
                   wi, manifest, min_children, max_depth, lazy>>

\* WriteChunkCleanup with the handler going on to the next chunk instead of
\* raising again
WriteChunkCleanup_GoesOn ==
    /\ pipeline = "split" /\ pc = "except"
    /\ disk' = Unlinked(disk, ChunkFileName(wi - 1))
    /\ pc' = "write"
    /\ wi' = wi + 1
    /\ UNCHANGED <<pipeline, tree_data, max_bytes, total_nodes, chunks,
                   manifest, min_children, max_depth, lazy>>

\* lines 463-472: the handlers unlink the file and raise again
WriteChunkCleanup ==
    /\ pipeline = "split" /\ pc = "except"
    /\ disk' = Unlinked(disk, ChunkFileName(wi - 1))
    /\ pc' = "failed"
    /\ UNCHANGED <<pipeline, tree_data, max_bytes, total_nodes, chunks,
                   wi, manifest, min_children, max_depth, lazy>>

\* lines 474-477: after the loop, manifest.json is written
WriteManifest ==
    /\ pipeline = "split" /\ pc = "write" /\ wi > Len(chunks)
    /\ disk' = Written(disk, "manifest.json", manifest)
    /\ pc' = "done"
    /\ UNCHANGED <<pipeline, tree_data, max_bytes, total_nodes, chunks,
                   wi, manifest, min_children, max_depth, lazy>>

\* lines 474-477: the write of manifest.json fails midway
WriteManifestFail ==
    /\ pipeline = "split" /\ pc = "write" /\ wi > Len(chunks)
    /\ disk' = CutShort(disk, "manifest.json", manifest)
    /\ pc' = "manifest_failed"
    /\ UNCHANGED <<pipeline, tree_data, max_bytes, total_nodes, chunks,
                   wi, manifest, min_children, max_depth, lazy>>

\* ---- convert_to_lazy: count_descendants, should_split_node ----

\* the keys that are no child of a nested-object node
MetaKeys == {"name", "level", "lazy", "id"}

\* [k for k in node.keys() if k not in ['name', 'level', 'lazy', 'id']]
child_keys(node) == SelectSeq(Keys(node), LAMBDA k : k \notin MetaKeys)

RECURSIVE count_descendants(_)
count_descendants(node) ==
    IF ~IsDict(node) THEN 0
    ELSE IF Has(node, "children")
    THEN LET children == Get(node, "children")
         IN  IF ~IsList(children) THEN 0
             ELSE Len(children.e)
                  + SumSeq([i \in 1..Len(children.e) |-> count_descendants(children.e[i])])
    ELSE LET ck == child_keys(node)
         IN  SumSeq([i \in 1..Len(ck) |->
                 IF IsDict(Get(node, ck[i]))
                 THEN 1 + count_descendants(Get(node, ck[i])) ELSE 0])

\* lines 73-76: some child has at least min_children * 3 descendants
has_major_branch(node) ==
    LET children_list ==
            IF Has(node, "children") THEN Get(node, "children").e
            ELSE LET ck == SelectSeq(child_keys(node), LAMBDA k : IsDict(Get(node, k)))
                 IN  [i \in 1..Len(ck) |-> Get(node, ck[i])]
    IN  \E i \in 1..Len(children_list) :
            count_descendants(children_list[i]) >= min_children * 3

should_split_node(node, current_depth) ==
    IF ~IsDict(node) THEN FALSE
    ELSE IF Has(node, "children") /\ ~IsList(Get(node, "children")) THEN FALSE
    ELSE LET child_count == IF Has(node, "children") THEN Len(Get(node, "children").e)
                            ELSE Len(child_keys(node))
         IN  \/ child_count >= min_children /\ current_depth < max_depth
             \/ has_major_branch(node)

\* ---- convert_to_lazy: split_tree ----

\* re.sub(r'[^\w\-_\.]', '_', name.lower()): the names of the model are
\* letters and digits, which the substitution keeps; lower() changes "Life"
safe_name(name) == IF name = "Life" THEN "life" ELSE name

\* f"{safe_name}_{str(uuid.uuid4())[:8]}.json"; the n-th uuid4 of a run is
\* written u<n>, the values being distinct
LazyFileName(name, n) == safe_name(name) \o "_u" \o ToString(n) \o ".json"

\* what a run of split_tree has done so far: the output directory,
\* processed_files in insertion order, the uuid4 values drawn, the files
\* opened for writing, the exception raised ("" when none), and the write
\* that is to fail (0 when none does)
LazyRun(d, pf, u, w, err, fail_at) ==
    [disk |-> d, processed_files |-> pf, uuids |-> u, writes |-> w, err |-> err,
     fail_at |-> fail_at]

\* the value a call returns with the run after it
Ret(node, st) == [node |-> node, st |-> st]

\* a.update(b)
RECURSIVE Update(_, _)
Update(a, b) ==
    IF Len(b.e) = 0 THEN a
    ELSE Update(Put(a, b.e[1].k, b.e[1].v), Dict(Tail(b.e)))

\* structured_child = {'name': child_key}; structured_child.update(child_obj)
structured_child(child_key, child_obj) ==
    Update(Dict(<<Entry("name", Str(child_key))>>), child_obj)

\* lines 117-125, 167-175: write the subtree file and enter it in
\* processed_files; the write that fails leaves the file cut short and raises
WriteSubtree(st, filename, content, name, descendants) ==
    IF st.writes + 1 = st.fail_at
    THEN [st EXCEPT !.disk = CutShort(@, filename, content),
                    !.writes = @ + 1,
                    !.err = "OSError"]
    ELSE [st EXCEPT !.disk = Written(@, filename, content),
                    !.writes = @ + 1,
                    !.processed_files =
                        Append(@, [name |-> name, file |-> filename,
                                   descendants |-> descendants])]

\* result with the lazy placeholder fields set
Placeholder(result, filename) ==
    Put(Put(result, "lazy", Bool(TRUE)), "id", Str(filename))

RECURSIVE split_tree(_, _, _)
RECURSIVE SplitChildren(_, _, _, _)
RECURSIVE ConvertChildren(_, _, _, _, _)
RECURSIVE ProcessKeys(_, _, _, _, _)

\* lines 133-136: the list of the processed children; acc.node is the list
\* built so far
SplitChildren(children, i, depth, acc) ==
    IF i > Len(children) \/ acc.st.err # "" THEN acc
    ELSE LET r == split_tree(children[i], depth, acc.st)
         IN  SplitChildren(children, i + 1, depth, Ret(Append(acc.node, r.node), r.st))

\* lines 156-164: subtree_data['children'] of a nested-object node
ConvertChildren(result, ck, i, depth, acc) ==
    IF i > Len(ck) \/ acc.st.err # "" THEN acc
    ELSE LET child_obj == Get(result, ck[i])
             r == split_tree(structured_child(ck[i], child_obj), depth, acc.st)
         IN  IF IsDict(child_obj)
             THEN ConvertChildren(result, ck, i + 1, depth,
                                  Ret(Append(acc.node, r.node), r.st))
             ELSE ConvertChildren(result, ck, i + 1, depth, acc)

\* lines 184-190: the child objects of a nested-object node processed in place
ProcessKeys(result, ck, i, depth, st) ==
    IF i > Len(ck) \/ st.err # "" THEN Ret(result, st)
    ELSE LET child_obj == Get(result, ck[i])
             r == split_tree(structured_child(ck[i], child_obj), depth, st)
         IN  IF IsDict(child_obj)
             THEN ProcessKeys(Put(result, ck[i], r.node), ck, i + 1, depth, r.st)
             ELSE ProcessKeys(result, ck, i + 1, depth, st)

\* split_tree(node, base_path, min_children, max_depth, current_depth,
\* processed_files).  In the structured branch the call on subtree_data meets
\* the same children one level deeper: when the node has a major branch,
\* should_split_node holds at every depth, the calls never end and Python
\* raises RecursionError before any of them writes a file.
split_tree(node, current_depth, st) ==
    IF ~IsDict(node) THEN Ret(node, st)
    ELSE IF Has(node, "children") /\ IsList(Get(node, "children"))
    THEN LET children == Get(node, "children").e
         IN  IF should_split_node(node, current_depth)
             THEN LET filename == LazyFileName(GetOr(node, "name", Str("node")).s,
                                               st.uuids + 1)
                      st1 == [st EXCEPT !.uuids = @ + 1]
                      subtree_data ==
                          Dict(<<Entry("name", Get(node, "name")),
                                 Entry("level", GetOr(node, "level", Num(current_depth))),
                                 Entry("children", List(children))>>)
                      sub == split_tree(subtree_data, current_depth + 1, st1)
                      st2 == WriteSubtree(sub.st, filename, sub.node, Get(node, "name"),
                                          count_descendants(node) + 1)
                  IN  IF ~Has(node, "name")
                      THEN Ret(node, [st1 EXCEPT !.err = "KeyError"])
                      ELSE IF has_major_branch(node)
                      THEN Ret(node, [st1 EXCEPT !.err = "RecursionError"])
                      ELSE IF sub.st.err # "" THEN Ret(node, sub.st)
                      ELSE IF st2.err # "" THEN Ret(node, st2)
                      ELSE Ret(Placeholder(Put(node, "children", List(<<>>)), filename), st2)
             ELSE LET r == SplitChildren(children, 1, current_depth + 1, Ret(<<>>, st))
                  IN  Ret(Put(node, "children", List(r.node)), r.st)
    ELSE LET ck == child_keys(node)
         IN  IF should_split_node(node, current_depth)
             THEN LET node_name == GetOr(node, "name",
                                         Str(IF Len(ck) > 0 THEN ck[1] ELSE "node"))
                      filename == LazyFileName(node_name.s, st.uuids + 1)
                      st1 == [st EXCEPT !.uuids = @ + 1]
                      conv == ConvertChildren(node, ck, 1, current_depth + 1, Ret(<<>>, st1))
                      subtree_data ==
                          Dict(<<Entry("name", node_name),
                                 Entry("level", GetOr(node, "level", Num(current_depth))),
                                 Entry("children", List(conv.node))>>)
                      st2 == WriteSubtree(conv.st, filename, subtree_data, node_name,
                                          count_descendants(node) + 1)
                  IN  IF conv.st.err # "" THEN Ret(node, conv.st)
                      ELSE IF st2.err # "" THEN Ret(node, st2)
                      ELSE Ret(Placeholder(Dict(SelectSeq(node.e, LAMBDA en : en.k \in MetaKeys)),
                                           filename), st2)
             ELSE ProcessKeys(node, ck, 1, current_depth + 1, st)

\* ---- convert_to_lazy: main, create_manifest ----

\* lines 256-265: {"Life": {...}} becomes its value, named Life at level 0
processed_data(data) ==
    IF IsDict(data) /\ Len(data.e) = 1 /\ Has(data, "Life")
    THEN LET root_data == Get(data, "Life")
         IN  IF IsDict(root_data)
             THEN Put(Put(root_data, "name", Str("Life")), "level", Num(0))
             ELSE root_data
    ELSE data

\* lines 196-227: the manifest dict of root and processed_files
manifest_of(root, processed_files) ==
    LET ck == SelectSeq(child_keys(root), LAMBDA k : IsDict(Get(root, k)))
        manifest_children ==
            IF Has(root, "children") THEN Get(root, "children")
            ELSE List([i \in 1..Len(ck) |-> structured_child(ck[i], Get(root, ck[i]))])
    IN  [name |-> GetOr(root, "name", Str("Life")),
         level |-> GetOr(root, "level", Num(0)),
         children |-> manifest_children,
         version |-> "lazy-1.0",
         total_files |-> Len(processed_files) + 1,
         files |-> processed_files,
         total_nodes |-> count_descendants(root) + 1]

\* lines 267-271: main runs split_tree on the normalised document; a write
\* of the run may fail
LazySplit ==
    /\ pipeline = "lazy" /\ pc = "start"
    /\ \E fail_at \in 0..split_tree(processed_data(tree_data), 0,
                                     LazyRun(disk, <<>>, 0, 0, "", 0)).st.writes :
          LET r == split_tree(processed_data(tree_data), 0,
                              LazyRun(disk, <<>>, 0, 0, "", fail_at))
          IN  /\ disk' = r.st.disk
              /\ lazy' = [tree |-> r.node, processed_files |-> r.st.processed_files,
                          err |-> r.st.err]
              /\ pc' = IF r.st.err = "" THEN "manifest" ELSE "failed"
    /\ UNCHANGED <<pipeline, tree_data, max_bytes, total_nodes, chunks, wi, manifest,
                   min_children, max_depth>>

\* line 274, lines 229-231: create_manifest on the tree split_tree returned
CreateManifest ==
    /\ pipeline = "lazy" /\ pc = "manifest"
    /\ manifest' = manifest_of(lazy.tree, lazy.processed_files)
    /\ disk' = Written(disk, "manifest.json", manifest')
    /\ pc' = "done"
    /\ UNCHANGED <<pipeline, tree_data, max_bytes, total_nodes, chunks, wi,
                   min_children, max_depth, lazy>>

\* lines 229-231: the write of manifest.json fails midway
CreateManifestFail ==
    /\ pipeline = "lazy" /\ pc = "manifest"
    /\ manifest' = manifest_of(lazy.tree, lazy.processed_files)
    /\ disk' = CutShort(disk, "manifest.json", manifest')
    /\ pc' = "manifest_failed"
    /\ UNCHANGED <<pipeline, tree_data, max_bytes, total_nodes, chunks, wi,
                   min_children, max_depth, lazy>>

\* ---- the documents and budgets of the model ----

MaxNodes == 5

MaxFlatExtra == 2

Name(i) == "n" \o ToString(i)

Leaf(i) == Dict(<<Entry("name", Str(Name(i)))>>)

Node(i, kids) == Dict(<<Entry("name", Str(Name(i))), Entry("children", List(kids))>>)

\* the ordered trees of n nodes, named n<id>, n<id+1>, ... in preorder; a
\* leaf has no children key
RECURSIVE TreesAt(_, _)
RECURSIVE ForestsAt(_, _)
TreesAt(n, id) ==
    IF n = 1 THEN {Leaf(id)}
    ELSE {Node(id, f) : f \in ForestsAt(n - 1, id + 1)}

ForestsAt(m, id) ==
    IF m = 0 THEN {<<>>}
    ELSE UNION {{<<t>> \o f : t \in TreesAt(k, id), f \in ForestsAt(m - k, id + k)} :
                k \in 1..m}

StructuredInputs == UNION {TreesAt(n, 1) : n \in 1..MaxNodes}

\* the nested key maps of m keys in all, named in preorder; a key without
\* sub-keys holds {}
RECURSIVE MapsAt(_, _)
MapsAt(m, id) ==
    IF m = 0 THEN {Dict(<<>>)}
    ELSE UNION {{Dict(<<Entry(Name(id), v)>> \o rest.e) :
                    v \in MapsAt(k - 1, id + 1), rest \in MapsAt(m - k, id + k)} :
                k \in 1..m}

NestedInputs == UNION {MapsAt(m, 1) : m \in 0..MaxNodes}

\* a child of some hundreds of bytes: forty leaves under one node
BigChild == Node(2000, [i \in 1..40 |-> Leaf(2000 + i)])

\* a root with more children than the flat-structure threshold: all leaves,
\* or with a big child second, or with an entry that is no object third
FlatInputs ==
    {Node(0, [i \in 1..n |-> Leaf(i)]) :
        n \in (FlatThreshold + 1)..(FlatThreshold + MaxFlatExtra)}
    \cup {Node(0, [i \in 1..(FlatThreshold + 1) |-> IF i = 2 THEN BigChild ELSE Leaf(i)]),
          Node(0, [i \in 1..(FlatThreshold + 1) |-> IF i = 3 THEN Num(7) ELSE Leaf(i)])}

\* structured trees with a child that is no object
MalformedInputs ==
    {Node(1, <<Num(7), Leaf(2)>>), Node(1, <<Leaf(2), Num(7)>>),
     Node(1, <<Node(2, <<Leaf(3), Str("x")>>), Leaf(4)>>)}

\* the budgets of the malformed trees: below and above the 0.001 MB at which
\* estimate_node_size_mb holds an entry that is no object
MalformedBudgets == {200, 2000}

\* Root with the one child A of 2000 leaves, and the budget of 1 MB
ScenarioInput == Node(0, <<Node(1, [i \in 1..2000 |-> Leaf(i + 1)])>>)

ScenarioBudget == 1024 * 1024

\* documents that parse but are no object: [] and 7
NonDictInputs == {List(<<>>), Num(7)}

TreeBudgets == {60, 150, 200, 260}

MapBudgets == {12, 20, 30, 45}

FlatBudgets == {700, 2000, 30000}

\* the documents of the threshold splitter, {"Life": {...}} among them
LazyInputs ==
    StructuredInputs \cup NestedInputs
    \cup {Dict(<<Entry("Life", m)>>) : m \in UNION {MapsAt(k, 1) : k \in 0..(MaxNodes - 1)}}

MaxMinChildren == 3

MaxDepth == 2

Init ==
    /\ pc = "start"
    /\ \/ /\ pipeline = "split"
          /\ \/ tree_data \in StructuredInputs \cup NonDictInputs /\ max_bytes \in TreeBudgets
             \/ tree_data \in NestedInputs /\ max_bytes \in MapBudgets
             \/ tree_data \in FlatInputs /\ max_bytes \in FlatBudgets
             \/ tree_data \in MalformedInputs /\ max_bytes \in MalformedBudgets
             \/ tree_data = ScenarioInput /\ max_bytes = ScenarioBudget
          /\ min_children = 0
          /\ max_depth = 0
       \/ /\ pipeline = "lazy"
          /\ tree_data \in LazyInputs
          /\ max_bytes = 0
          /\ min_children \in 0..MaxMinChildren
          /\ max_depth \in 0..MaxDepth
    /\ total_nodes = 0
    /\ chunks = <<>>
    /\ wi = 0
    /\ manifest = [total_files |-> 0, total_nodes |-> 0, files |-> <<>>]
    /\ disk = {}
    /\ lazy = [tree |-> Num(0), processed_files |-> <<>>, err |-> ""]

Next ==
    \/ SplitStart
    \/ WriteChunk
    \/ WriteChunkFail
    \/ WriteChunkCleanup
    \/ WriteManifest
    \/ WriteManifestFail
    \/ LazySplit
    \/ CreateManifest
    \/ CreateManifestFail

Spec == Init /\ [][Next]_vars

(***************************************************************************)
(* Properties                                                              *)
(***************************************************************************)

\* the partitioner has just returned its list of chunks
Returned == pipeline = "split" /\ pc = "write" /\ wi = 1

\* the file manifest.json as split_tree_file wrote it
ManifestWritten == \E f \in disk : f.name = "manifest.json"

\* a structured chunk is within the budget, or holds exactly one child whose
\* own serialized size exceeds the budget
TreeChunkFits(chunk) ==
    \/ json_bytes(chunk) <= max_bytes
    \/ /\ Len(ChildrenOf(chunk)) = 1
       /\ json_bytes(ChildrenOf(chunk)[1]) > max_bytes

\* the map holds one key at every level: its serialized size is that of its
\* one top-level key
RECURSIVE OneKeyChain(_)
OneKeyChain(map) ==
    \/ ~IsDict(map)
    \/ Len(map.e) = 0
    \/ Len(map.e) = 1 /\ OneKeyChain(map.e[1].v)

MapChunkFits(chunk) ==
    \/ json_bytes(chunk) <= max_bytes
    \/ OneKeyChain(chunk)

SubtreeChunksFit ==
    (Returned /\ is_structured_tree(tree_data) /\ Len(ChildrenOf(tree_data)) <= FlatThreshold)
        => \A i \in 1..Len(chunks) : TreeChunkFits(chunks[i].chunk)

FlatChunksFit ==
    (Returned /\ is_structured_tree(tree_data) /\ Len(ChildrenOf(tree_data)) > FlatThreshold)
        => \A i \in 1..Len(chunks) : TreeChunkFits(chunks[i].chunk)

MapChunksFit ==
    (Returned /\ is_nested_map(tree_data))
        => \A i \in 1..Len(chunks) : MapChunkFits(chunks[i].chunk)

\* C1: every chunk the byte-budget partitioners return has an exact
\* serialized size of at most the budget, unless it holds exactly one child
\* (or one key) whose own serialized size already exceeds the budget.
C1_ChunksWithinBudget == SubtreeChunksFit /\ FlatChunksFit /\ MapChunksFit

\* the names of the nodes of a structured tree
RECURSIVE NodeNames(_)
NodeNames(node) ==
    IF ~IsDict(node) THEN {}
    ELSE {GetOr(node, "name", Str(""))}
         \cup UNION {NodeNames(ChildrenOf(node)[i]) : i \in 1..Len(ChildrenOf(node))}

\* the names of the nodes below the root of a structured tree
Below(node) == UNION {NodeNames(ChildrenOf(node)[i]) : i \in 1..Len(ChildrenOf(node))}

ChunkNamesAreInputNames ==
    UNION {NodeNames(chunks[i].chunk) : i \in 1..Len(chunks)} = NodeNames(tree_data)

ChildSubtreeUnderOneChunk ==
    \A i \in 1..Len(chunks) :
        /\ \A j \in (i + 1)..Len(chunks) :
               Below(chunks[i].chunk) \cap Below(chunks[j].chunk) = {}
        /\ \A j \in 1..Len(chunks) :
               GetOr(chunks[j].chunk, "name", Str("")) \notin Below(chunks[i].chunk)

\* C2: for a structured tree the nodes of the chunks extract_subtrees returns
\* are the nodes of the input: every input node is in some chunk, no other
\* node is, and no child subtree is under two chunks.
C2_ChunksHoldTheInputNodes ==
    (Returned /\ is_structured_tree(tree_data))
        => (ChunkNamesAreInputNames /\ ChildSubtreeUnderOneChunk)

\* the deep merge of map b into map a: a key of both, holding maps in both,
\* is merged; any other key of b is set in a
RECURSIVE DeepMerge(_, _)
DeepMerge(a, b) ==
    IF Len(b.e) = 0 THEN a
    ELSE LET en == b.e[1]
             merged == IF Has(a, en.k) /\ IsDict(Get(a, en.k)) /\ IsDict(en.v)
                       THEN DeepMerge(Get(a, en.k), en.v) ELSE en.v
         IN  DeepMerge(Put(a, en.k, merged), Dict(Tail(b.e)))

\* the deep merge of the chunks i..Len(chunks) into acc, in emitted order
RECURSIVE MergeFrom(_, _)
MergeFrom(acc, i) ==
    IF i > Len(chunks) THEN acc
    ELSE MergeFrom(DeepMerge(acc, chunks[i].chunk), i + 1)

\* the key paths of a map that end in an empty map or in a value that is no map
RECURSIVE LeafPaths(_)
LeafPaths(map) ==
    IF ~IsDict(map) \/ Len(map.e) = 0 THEN {<<>>}
    ELSE UNION {{<<map.e[i].k>> \o p : p \in LeafPaths(map.e[i].v)} : i \in 1..Len(map.e)}

\* C3: the deep merge of the chunks of chunk_nested_map, taken in emitted
\* order, is the input map with its keys in their original order, and no
\* entry of the input is in two chunks.
C3_MergedChunksAreTheInput ==
    (Returned /\ is_nested_map(tree_data))
        => /\ MergeFrom(Dict(<<>>), 1) = tree_data
           /\ \A i \in 1..Len(chunks) : \A j \in (i + 1)..Len(chunks) :
                  LeafPaths(chunks[i].chunk) \cap LeafPaths(chunks[j].chunk) = {}

\* a map of several top-level keys was split inside one of its keys
C3_Witness ==
    /\ Returned /\ is_nested_map(tree_data)
    /\ Len(tree_data.e) >= 2
    /\ Len(chunks) >= 3
    /\ \E i \in 1..Len(chunks) : \E j \in (i + 1)..Len(chunks) :
           Keys(chunks[i].chunk) = Keys(chunks[j].chunk)

\* a node of the lazy output stands for the file its id names
IsPlaceholder(node) ==
    IsDict(node) /\ Has(node, "lazy") /\ Has(node, "id") /\ Get(node, "lazy") = Bool(TRUE)

\* the children of a node, named, in order, each with its own children; a
\* placeholder is replaced by the content of its file first
RECURSIVE Shape(_, _)
Shape(node, d) ==
    IF ~IsDict(node) THEN <<>>
    ELSE IF IsPlaceholder(node)
    THEN Shape((CHOOSE f \in d : f.name = Get(node, "id").s).content, d)
    ELSE IF Has(node, "children") /\ IsList(Get(node, "children"))
    THEN LET children == Get(node, "children").e
         IN  [i \in 1..Len(children) |->
                 [name |-> GetOr(children[i], "name", Str("")),
                  kids |-> Shape(children[i], d)]]
    ELSE LET ck == SelectSeq(child_keys(node), LAMBDA k : IsDict(Get(node, k)))
         IN  [i \in 1..Len(ck) |->
                 [name |-> Str(ck[i]), kids |-> Shape(Get(node, ck[i]), d)]]

\* split_tree has returned its tree and every placeholder, resolved, gives
\* back the children of the input
ResolvesToInput ==
    Shape(lazy.tree, disk) = Shape(processed_data(tree_data), {})

\* C4: in lazy mode split_tree returns a tree which, every placeholder
\* replaced by the content of the file its id names, is isomorphic to the
\* input, for every input and every min_children and max_depth (runs whose
\* file write fails aside).
C4_LazyOutputResolvesToInput ==
    (pipeline = "lazy" /\ pc # "start" /\ lazy.err # "OSError")
        => (lazy.err = "" /\ ResolvesToInput)

\* manifest.json as found in the output directory
ManifestFile == CHOOSE f \in disk : f.name = "manifest.json"

\* C5: total_nodes in the manifest of split_tree_file is the number of nodes
\* of the input document, for a structured tree (one per node) and for a
\* nested map (one per key, the root counted or not) alike.
C5_TotalNodesCountsTheInput ==
    (pipeline = "split" /\ pc = "done" /\ IsDict(tree_data))
        => IF is_structured_tree(tree_data)
           THEN ManifestFile.content.total_nodes = 1 + count_descendants(tree_data)
           ELSE ManifestFile.content.total_nodes
                    \in {count_descendants(tree_data), 1 + count_descendants(tree_data)}

\* C6: total_nodes in the manifest of the lazy pipeline is
\* 1 + count_descendants of the unsplit input root.
C6_LazyTotalNodesCountsTheInput ==
    (pipeline = "lazy" /\ pc = "done")
        => ManifestFile.content.total_nodes
               = 1 + count_descendants(processed_data(tree_data))

\* C7: in both pipelines, when a run has failed, no chunk file cut short by
\* a failed write is left in the output directory.
C7_NoPartialChunkSurvives ==
    (pc = "failed")
        => \A f \in disk : f.name # "manifest.json" => f.state = "complete"

ManifestOnDisk == \E f \in disk : f.name = "manifest.json"

\* every chunk of the run is a complete file of the output directory
AllChunksWritten ==
    IF pipeline = "split"
    THEN /\ wi > Len(chunks)
         /\ \A i \in 1..Len(chunks) :
                File(ChunkFileName(i - 1), "complete", chunks[i].chunk) \in disk
    ELSE /\ lazy.err = ""
         /\ \A i \in 1..Len(lazy.processed_files) :
                \E f \in disk : f.name = lazy.processed_files[i].file /\ f.state = "complete"
         /\ \A f \in disk : f.name # "manifest.json" => f.state = "complete"

\* C8: manifest.json is in the output directory only when every chunk has
\* been written in full, and a run that failed before or while writing its
\* chunks has no manifest.json.
C8_ManifestOnlyAfterAllChunks ==
    /\ ManifestOnDisk => AllChunksWritten
    /\ pc \in {"except", "failed"} => ~ManifestOnDisk

\* split_tree_file has written the manifest of a run of several chunks
C8_Witness ==
    pipeline = "split" /\ pc = "done" /\ ManifestOnDisk /\ Len(chunks) >= 3

\* C9: in every manifest split_tree_file writes exactly one descriptor has
\* is_root set, and it is the first, whatever the document.
C9_ExactlyOneRootDescriptor ==
    (pipeline = "split" /\ pc = "done")
        => LET files == ManifestFile.content.files
           IN  /\ Cardinality({i \in 1..Len(files) : files[i].is_root}) = 1
               /\ files[1].is_root

\* C10: for a map of exactly one top-level key K, every chunk of
\* chunk_nested_map is a map whose only top-level key is K.
C10_ChunksKeepTheSingleKey ==
    (Returned /\ is_nested_map(tree_data) /\ Len(tree_data.e) = 1)
        => \A i \in 1..Len(chunks) :
               IsDict(chunks[i].chunk) /\ Keys(chunks[i].chunk) = Keys(tree_data)

\* under the single key K, a chunk holds part of an inner key that was too
\* large and was split by recursion
C10_Witness ==
    /\ Returned /\ is_nested_map(tree_data) /\ Len(tree_data.e) = 1
    /\ \E i \in 1..Len(chunks) :
          LET inner == chunks[i].chunk.e[1].v
          IN  /\ IsDict(inner) /\ Len(inner.e) = 1
              /\ Len(inner.e[1].v.e) >= 1
              /\ inner.e[1].v # Get(Get(tree_data, tree_data.e[1].k), inner.e[1].k)

\* the child lists of the chunks i..Len(chunks), one after the other
RECURSIVE ChunkChildrenFrom(_)
ChunkChildrenFrom(i) ==
    IF i > Len(chunks) THEN <<>>
    ELSE ChildrenOf(chunks[i].chunk) \o ChunkChildrenFrom(i + 1)

FlatReturned ==
    /\ Returned /\ is_structured_tree(tree_data)
    /\ Len(ChildrenOf(tree_data)) > FlatThreshold

\* C11: for a node of more than 1000 children the child lists of the chunks
\* of extract_flat_structure, put one after the other in emitted order, are
\* the node's child list: every child once, in its place.
C11_FlatChunksConcatenateToChildren ==
    FlatReturned => ChunkChildrenFrom(1) = ChildrenOf(tree_data)

\* a flat node was split into several chunks, one of them holding alone a
\* child larger than the budget
C11_Witness ==
    /\ FlatReturned
    /\ Len(chunks) >= 3
    /\ \E i \in 1..Len(chunks) :
           /\ Len(ChildrenOf(chunks[i].chunk)) = 1
           /\ json_bytes(ChildrenOf(chunks[i].chunk)[1]) > max_bytes

\* the objects of a JSON value: the value itself, the entries of its lists
\* and the values of its keys, at every level
RECURSIVE AllDicts(_)
AllDicts(v) ==
    IF IsDict(v) THEN {v} \cup UNION {AllDicts(v.e[i].v) : i \in 1..Len(v.e)}
    ELSE IF IsList(v) THEN UNION {AllDicts(v.e[i]) : i \in 1..Len(v.e)}
    ELSE {}

\* the chunk files of the lazy pipeline found whole in the output directory
LazyChunkFiles == {f \in disk : f.name # "manifest.json" /\ f.state = "complete"}

\* the objects of the lazy output: of the tree split_tree returned and of
\* the chunk files
OutputDicts == AllDicts(lazy.tree) \cup UNION {AllDicts(f.content) : f \in LazyChunkFiles}

\* split_tree has ended, by return or by an exception of its own
LazyEnded == pipeline = "lazy" /\ pc # "start" /\ lazy.err # "OSError"

\* the children of an input node, each carrying its name
KidsOf(node) ==
    IF Has(node, "children") /\ IsList(Get(node, "children")) THEN Get(node, "children").e
    ELSE LET ck == SelectSeq(child_keys(node), LAMBDA k : IsDict(Get(node, k)))
         IN  [i \in 1..Len(ck) |-> structured_child(ck[i], Get(node, ck[i]))]

\* the names of the nodes the stated rule selects, node being at depth d
RECURSIVE SelectedByRule(_, _)
SelectedByRule(node, d) ==
    LET kids == KidsOf(node)
        selected ==
            \/ Len(kids) >= min_children /\ d < max_depth
            \/ \E i \in 1..Len(kids) : count_descendants(kids[i]) >= 3 * min_children
    IN  (IF selected THEN {Get(node, "name")} ELSE {})
        \cup UNION {SelectedByRule(kids[i], d + 1) : i \in 1..Len(kids)}

\* the names of the nodes the output holds as placeholders
PlaceholderNames == {Get(p, "name") : p \in {q \in OutputDicts : IsPlaceholder(q) /\ Has(q, "name")}}

\* C12: split_tree replaces a node at depth d of the input by a placeholder
\* exactly when its child count is at least min_children and d < max_depth,
\* or one of its children has at least 3 x min_children descendants; the
\* root is at depth 0 and a child one deeper than its parent.
C12_PlaceholderIffRule ==
    (LazyEnded /\ Has(processed_data(tree_data), "name"))
        => /\ lazy.err = ""
           /\ PlaceholderNames = SelectedByRule(processed_data(tree_data), 0)

\* split_tree has returned its tree
LazyReturned == pipeline = "lazy" /\ pc \in {"manifest", "done", "manifest_failed"}

\* the number of nodes of a Shape
RECURSIVE ShapeCount(_)
ShapeCount(sh) ==
    IF Len(sh) = 0 THEN 0
    ELSE 1 + ShapeCount(sh[1].kids) + ShapeCount(Tail(sh))

\* the placeholder carries no child and the lazy fields
PlaceholderIsBare(p) == IsPlaceholder(p) /\ count_descendants(p) = 0

\* the file the placeholder names was written and holds the node itself,
\* under its name and level, with its child list
PlaceholderFileHoldsNode(p) ==
    \E f \in LazyChunkFiles :
        /\ f.name = Get(p, "id").s
        /\ IsDict(f.content) /\ ~IsPlaceholder(f.content)
        /\ Has(p, "name") => GetOr(f.content, "name", Str("")) = Get(p, "name")
        /\ Has(p, "level") => GetOr(f.content, "level", Num(0 - 1)) = Get(p, "level")

\* the descriptor of the placeholder's file counts the node and its descendants
PlaceholderDescriptorCounts(p) ==
    \E i \in 1..Len(lazy.processed_files) :
        /\ lazy.processed_files[i].file = Get(p, "id").s
        /\ lazy.processed_files[i].descendants = 1 + ShapeCount(Shape(p, disk))

\* the objects of the output that carry a lazy or an id field
MarkedDicts == {p \in OutputDicts : Has(p, "lazy") \/ Has(p, "id")}

\* C13: every placeholder of the lazy output has no children, lazy = true
\* and the id of a written chunk file that holds the node itself with its
\* child list, and the descriptor of that file has descendants
\* = 1 + count_descendants(node).
C13_PlaceholderNamesItsSubtreeFile ==
    LazyReturned
        => \A p \in MarkedDicts :
               /\ PlaceholderIsBare(p)
               /\ PlaceholderFileHoldsNode(p)
               /\ PlaceholderDescriptorCounts(p)

\* the partitioner has returned on Root with the one child A of 2000 leaves,
\* the budget being 1 MB
ScenarioReturned ==
    Returned /\ tree_data = ScenarioInput /\ max_bytes = ScenarioBudget

\* the name of the root of a chunk
ChunkRootName(i) == GetOr(chunks[i].chunk, "name", Str("")).s

\* C14 as stated: the flat-structure path is taken on A's children and gives
\* several part chunks under A, plus one chunk of Root with A's shell, and
\* total_nodes is 1 + 1 + 2000.
C14_ScenarioSplitsUnderA ==
    ScenarioReturned
        => /\ Cardinality({i \in 1..Len(chunks) : ChunkRootName(i) = Name(1)}) >= 2
           /\ \E i \in 1..Len(chunks) :
                  /\ ChunkRootName(i) = Name(0)
                  /\ ChildrenOf(chunks[i].chunk) = <<node_without_children(ChildrenOf(tree_data)[1])>>
           /\ manifest.total_nodes = 1 + 1 + 2000

\* C14, amended: Root, whose estimated size is within the budget, is returned
\* whole as the one chunk, under the empty path, and total_nodes is
\* 1 + 1 + 2000.
C14_ScenarioReturnsRootWhole ==
    ScenarioReturned
        => /\ chunks = <<[path |-> "", chunk |-> tree_data]>>
           /\ manifest.total_nodes = 1 + 1 + 2000

C14_Witness ==
    /\ ScenarioReturned
    /\ Len(ChildrenOf(ChildrenOf(tree_data)[1])) > FlatThreshold
    /\ Len(chunks) = 1

\* the tree holds, at some level, a children entry that is no object
RECURSIVE HasMalformedChild(_)
HasMalformedChild(node) ==
    \E i \in 1..Len(ChildrenOf(node)) :
        \/ ~IsDict(ChildrenOf(node)[i])
        \/ HasMalformedChild(ChildrenOf(node)[i])

\* the partitioner raised: split_tree_file ended before it had any chunk
PartitionRaised == pipeline = "split" /\ pc = "failed" /\ chunks = <<>>

\* C15: extract_subtrees raises no error on a node whose children list holds
\* entries that are no objects; it leaves such entries out of the chunks it
\* returns.
C15_MalformedChildrenAreSkipped ==
    (pipeline = "split" /\ is_structured_tree(tree_data) /\ HasMalformedChild(tree_data))
        => /\ ~PartitionRaised
           /\ Returned => \A i \in 1..Len(chunks) : ~HasMalformedChild(chunks[i].chunk)

\* the leaves of the input: its objects without a child
InputLeaves == {m \in AllDicts(processed_data(tree_data)) : Len(KidsOf(m)) = 0}

\* C16: split_tree returns a leaf as it is in the input, in both
\* representations and at every depth: every object of the output that
\* stands for a node without children is a leaf of the input, key for key,
\* and is neither a placeholder nor the content of a chunk file.
C16_LeavesPassUnchanged ==
    LazyReturned
        => \A n \in OutputDicts : Len(Shape(n, disk)) = 0 => n \in InputLeaves

\* no two chunk files of the run were written for the same node
OneFilePerNode ==
    \A i \in 1..Len(lazy.processed_files) : \A j \in (i + 1)..Len(lazy.processed_files) :
        lazy.processed_files[i].name # lazy.processed_files[j].name

\* C17: for min_children >= 1 split_tree ends by returning, its recursion
\* not running into the interpreter's limit, also when a node has a child of
\* at least 3 x min_children descendants, and it writes every node it selects
\* to one chunk file only.
C17_SplitTreeEndsInOnePass ==
    (LazyEnded /\ min_children >= 1)
        => /\ lazy.err # "RecursionError"
           /\ Has(processed_data(tree_data), "name") => OneFilePerNode
====
